---- MODULE Spec2Model ----
(***************************************************************************)
(* Model of the NERO voice assistant orchestration layer                   *)
(* (voice_assistent/level1_comando_simples/nero_assistant.py and the       *)
(* collaborators it drives in modules/).                                   *)
(*                                                                         *)
(* The orchestrator is one asyncio coroutine (NeroAssistant.run).  One     *)
(* action of the model is the code executed between two suspension points  *)
(* (an await, or a blocking device call) of that coroutine.  Synthesis     *)
(* tasks created by the agent's Stop hook run on the same event loop, so   *)
(* they advance only while the orchestrator is suspended in an await.      *)
(*                                                                         *)
(* Under caller = "run" the model starts in main(), which checks the two    *)
(* credentials, constructs the assistant, awaits run and returns the exit   *)
(* code.                                                                    *)
(*                                                                         *)
(* The public coroutines are also called one by one, outside run, by the   *)
(* repository's test-suite; caller = "test" models that use.  The stop-word *)
(* detection of STTFraco (modules/stt_fraco.py) is never started by run; it *)
(* is driven through its public methods, which caller = "stt" models.  A    *)
(* listener is a thread of its own and steps at any time.  caller = "wake"  *)
(* is one direct call of STTFraco.detectar_wake_word, with texts and        *)
(* phrases as sequences of characters.                                      *)
(***************************************************************************)
EXTENDS Naturals, Sequences, FiniteSets

\* ------------------------------------------------------------------ bounds
\* at most this many synthesis tasks are pending on the event loop
MaxTasks == 2
\* number of direct calls made by a caller other than run
MaxCalls == 3
\* stop-word listener threads started in one execution
MaxListeners == 2
\* events put on the detection queues in one execution
MaxPuts == 2
\* characters of a recognized text
MaxTexto == 2

\* --------------------------------------------------------------- constants
\* keys of MaquinaEstadosNero.ESTADOS
ESTADOS == {"DESCANSO", "AGUARDANDO", "GRAVANDO", "PROCESSANDO", "RESPONDENDO"}

\* names handed to transitar: the five states and names that are no state
Nomes == ESTADOS \cup {"UNKNOWN", "INVALID_STATE", "descanso"}

\* transcripts the transcription service can hand back
Transcricoes == {"", " ", "que horas sao"}

\* final assistant texts seen by the Stop hook
Respostas == {"", "sao dez horas"}

VARIABLES
    caller,             \* "run": main() drives run; "test": the assistant's methods
                        \* are called directly; "stt": so are STTFraco's;
                        \* "wake": detectar_wake_word is called directly
    platform,           \* sys.platform class: "posix" or "win32"
    pc,                 \* suspension point of the orchestrator coroutine
    estado_atual,       \* MaquinaEstadosNero.estado_atual
    running,            \* NeroAssistant.running
    recording_complete, \* NeroAssistant.recording_complete (asyncio.Event flag)
    tasks,              \* synthesis tasks created by the Stop hook, not yet finished
    hist,               \* states taken by estado_atual since the turn began
    turn,               \* what happened in the current turn (observation only)
    procRet,            \* last value returned by estado_processando
    exitKind,           \* why run left its loop
    calls,              \* direct calls made so far
    lastCall,           \* the last direct call: operation, argument, result
    grav,               \* how the last call of estado_gravando ended (observation only)
    loopEmThread,       \* asyncio.get_event_loop() yields a loop in a listener thread
    temMicrofone,       \* STTFraco._get_microphone() finds an input device
    lst,                \* the stop-word listener threads started so far
    fila,               \* STTFraco._stop_word_queue (the queue object now bound)
    nputs,              \* events put on any detection queue so far
    micDono,            \* listener inside "with mic" on STTFraco.microphone, 0 if none
    stop_word_detected, \* STTFraco._stop_word_detected
    entregues,          \* events returned by verificar_palavra_parada_detectada
    consulta,           \* the last call of verificar_palavra_parada_detectada
    env,                \* the two credentials in the process environment
    exitCode,           \* value returned by main, "none" while it has not returned
    fecho,              \* the HTTP clients of STTForte and TTS, and how cleanup ended
    det                 \* the call of STTFraco.detectar_wake_word in progress

\* state of STTFraco's stop-word detection
sttVars == <<loopEmThread, temMicrofone, lst, fila, nputs, micDono,
             stop_word_detected, entregues, consulta>>

\* state of main()
mainVars == <<env, exitCode>>

vars == <<caller, platform, pc, estado_atual, running, recording_complete,
          tasks, hist, turn, procRet, exitKind, calls, lastCall, grav,
          sttVars, mainVars, fecho, det>>

\* ------------------------------------------------------ MaquinaEstadosNero
Transitar_SemIdempotencia(atual, novo) ==
    IF novo \notin ESTADOS THEN [ok |-> FALSE, estado |-> atual]
    ELSE IF novo = atual THEN [ok |-> FALSE, estado |-> atual]
    ELSE [ok |-> TRUE, estado |-> novo]

Transitar_SemValidacao(atual, novo) ==
    IF novo = atual THEN [ok |-> TRUE, estado |-> atual]
    ELSE [ok |-> novo \in ESTADOS, estado |-> novo]

\* transitar(novo_estado): the result and the state it leaves
Transitar(atual, novo) ==
    IF novo \notin ESTADOS THEN [ok |-> FALSE, estado |-> atual]
    ELSE IF novo = atual THEN [ok |-> TRUE, estado |-> atual]
    ELSE [ok |-> TRUE, estado |-> novo]

\* the observed sequence of states grows when the state changes
HistApp(h, antes, depois) == IF depois # antes THEN Append(h, depois) ELSE h

\* ------------------------------------------------------------ asyncio.Event
EventSet_Alterna(flag) == ~flag

EventSet_Nada(flag) == flag

\* recording_complete.set()
EventSet(flag) == TRUE

\* recording_complete.clear()
EventClear(flag) == FALSE

\* ------------------------------------------------------------ small helpers
Falsy_Nunca(t) == FALSE

\* Python truthiness of a str, as tested by "if not transcricao"
Falsy(t) == t = ""

\* "not transcricao or not transcricao.strip()" of processar_prompt
EmBranco(t) == t \in {"", " "}

\* _gerar_resumo_tts on texts of at most 200 characters
GerarResumoTts(texto) == IF texto = "" THEN "" ELSE texto

\* _setup_signal_handlers installs the handlers except on win32
HandlersInstalados == platform # "win32"

\* processar_prompt has not returned
NoRes == [feito |-> FALSE, chamou |-> FALSE, sucesso |-> FALSE,
          ferramentas |-> "none", custo |-> "none", levantou |-> FALSE]

\* how the reasoning service can answer one query: a response without or
\* with tool uses, the SDK cannot be imported, the query raises
AgenteServico == {"ok", "ok_tools", "import_error", "exception"}

TurnInit ==
    [wake |-> "none", wakeRunning |-> TRUE, transcript |-> "none",
     prompt |-> "", clears |-> 0, agentCalls |-> 0, clearedFirst |-> FALSE,
     hook |-> "none", sucesso |-> "none", waited |-> FALSE, fim |-> "none",
     outcome |-> "none", sets |-> 0, setsAntes |-> 0,
     srv |-> "none", res |-> NoRes, propria |-> "none", velho |-> FALSE,
     descanso |-> "none"]

NoCall == [op |-> "none", arg |-> "", pre |-> "DESCANSO", ret |-> "none"]

\* estado_gravando has not been called
\* (ret: how the call ended; falha: what failed; mic: the device of its
\* recording session; audio: r.listen returned audio; tentou:
\* transcrever_audio_file was called; sent, stt, transc: whether that call
\* sent a request, how the service answered, what the call returned)
NoGrav == [ret |-> "none", falha |-> "none", mic |-> "closed",
           audio |-> FALSE, tentou |-> FALSE, sent |-> FALSE,
           stt |-> "none", transc |-> "none"]

\* estado_gravando is blocked in r.listen inside "with mic as source"
GravAberto == [NoGrav EXCEPT !.mic = "open"]

\* how a request to the transcription service can end
DeepgramOutcomes == {"timeout", "exception", "status_500", "no_results",
                     "ok_empty", "ok_blank", "ok_text"}

Listeners == 1..MaxListeners

\* a listener thread that has not been started
\* (puts: events it has put; ouviu: "erro_servico" once one of its listen
\* attempts met a recognition-service error)
Unborn == [pc |-> "unborn", puts |-> 0, ouviu |-> "none"]

\* no event: the None of verificar_palavra_parada_detectada
NoEvent == [src |-> 0, n |-> 0, kind |-> "None"]

\* (atual: the listener started by the latest call of
\* aguardar_palavra_parada when the poll was made, 0 if none)
NoConsulta == [feita |-> FALSE, vazia |-> TRUE, ret |-> NoEvent, atual |-> 0]

\* a credential as a sequence of pieces; "your_" is the prefix of the
\* placeholders of the .env template
ChaveValida == <<"sk", "live">>

Chaves == {<<>>, <<"your_", "api", "key", "here">>, ChaveValida}

\* an environment variable: unset, or set to one of the credentials
EnvValores == {[set |-> FALSE, val |-> <<>>]}
                  \cup {[set |-> TRUE, val |-> k] : k \in Chaves}

\* os.getenv(name, "")
Getenv(e) == IF e.set THEN e.val ELSE <<>>

\* "not key or key.startswith('your_')"
ChaveInvalida(k) == IF k = <<>> THEN TRUE ELSE k[1] = "your_"

\* the credentials the collaborators were constructed with
DeepgramKey == Getenv(env.deepgram)

CartesiaKey == Getenv(env.cartesia)

\* no client has been created, cleanup has not run
NoFecho == [stt |-> "none", tts |-> "none", cleanup |-> "none"]

\* characters of recognized texts: a letter in both cases, a second letter
\* and the blank
Letras == {"a", "A", "b", " "}

\* texts a recognizer can hand back, as sequences of characters
Textos == UNION {[1..n -> Letras] : n \in 0..MaxTexto}

\* wake_words lists handed to detectar_wake_word: the shape of the list
\* the assistant is built with (["NERO OUVIR", "NERO"], the second phrase
\* inside the first), its reverse, lower case, a blank at the end, none
ListasDeFrases ==
    { << <<"A", "B">>, <<"A">> >>,
      << <<"A">>, <<"A", "B">> >>,
      << <<"a", "b">> >>,
      << <<"B", " ">>, <<"b">> >>,
      << >> }

\* the result dict detectar_wake_word starts with (line 113)
NoResult == [detected |-> FALSE, palavra |-> <<>>]

\* detectar_wake_word has not been called
\* (fase: where the call is; texto: the text recognized in the last
\* attempt; motivo: how the last attempt ended; erroServico: recognize_sphinx
\* raised RequestError in the last attempt)
NoDet == [fase |-> "idle", wake_words |-> <<>>, temTimeout |-> FALSE,
          texto |-> <<>>, motivo |-> "none", erroServico |-> FALSE,
          result |-> NoResult]

\* the orchestrator is suspended in an await: other tasks of the loop can run
AwaitPoints == {"descanso_sleep", "aguardando_sleep", "gravando_transcribe",
                "processando_call", "processando_wait", "respondendo_sleep",
                "cleanup"}

\* places inside run's try block where the coroutine can be interrupted
InterruptPoints == {"descanso_sleep", "aguardando_sleep", "gravando_listen",
                    "gravando_transcribe", "processando_call",
                    "processando_wait", "respondendo_sleep"}

\* -------------------------------------------------------------------- Init
Init ==
    /\ caller \in {"run", "test", "stt", "wake"}
    \* read by _setup_signal_handlers only, which run calls
    /\ platform \in IF caller = "run" THEN {"posix", "win32"} ELSE {"posix"}
    /\ pc = IF caller = "run" THEN "main" ELSE "test"
    /\ estado_atual = "DESCANSO"
    /\ running = TRUE
    /\ recording_complete = FALSE
    /\ tasks = 0
    /\ hist = <<"DESCANSO">>
    /\ turn = TurnInit
    /\ procRet = "none"
    /\ exitKind = "none"
    /\ calls = 0
    /\ lastCall = NoCall
    /\ grav = NoGrav
    \* read by listener threads only, and those exist only under "stt"
    /\ loopEmThread \in IF caller = "stt" THEN BOOLEAN ELSE {FALSE}
    /\ temMicrofone \in IF caller = "stt" THEN BOOLEAN ELSE {TRUE}
    /\ lst = [i \in Listeners |-> Unborn]
    /\ fila = <<>>
    /\ nputs = 0
    /\ micDono = 0
    /\ stop_word_detected = FALSE
    /\ entregues = <<>>
    /\ consulta = NoConsulta
    \* main reads both credentials from the environment; the fixture of the
    \* tests hands the assistant any transcription credential
    /\ env \in [deepgram : IF caller = "stt"
                               THEN {[set |-> TRUE, val |-> ChaveValida]}
                               ELSE IF caller = "test"
                                    THEN {e \in EnvValores : e.set}
                                    ELSE EnvValores,
                 cartesia : IF caller = "run"
                               THEN EnvValores
                               ELSE {[set |-> TRUE, val |-> ChaveValida]}]
    /\ exitCode = "none"
    /\ fecho = NoFecho
    \* the arguments of the call of detectar_wake_word to come
    /\ det \in IF caller = "wake"
                THEN {[NoDet EXCEPT !.wake_words = w, !.temTimeout = t] :
                         w \in ListasDeFrases, t \in BOOLEAN}
                ELSE {NoDet}

\* -------------------------------------------------- decisions of the code
\* a Python bool as it is reported by a call
PyBool(b) == IF b THEN "True" ELSE "False"

RunAposProcessando_SempreResponde(r) == "RESPONDENDO"

RunAposProcessando_NuncaResponde(r) == "DESCANSO"

\* run, after estado_processando returned r: the state it moves to next
\* (False: transitar("DESCANSO") and continue; True: estado_respondendo)
RunAposProcessando(r) == IF r = "True" THEN "RESPONDENDO" ELSE "DESCANSO"

DepoisDoAgente_SempreEspera(sucesso) == "wait"

\* estado_processando, after processar_prompt returned: wait for the
\* completion signal only when resultado["sucesso"] is true
DepoisDoAgente(sucesso) == IF sucesso THEN "wait" ELSE "agent_failed"

RetornoDaEspera_IgnoraTimeout(sinalizado) == "ok"

\* asyncio.wait_for(recording_complete.wait(), 30.0): returns when the flag
\* is set, raises TimeoutError otherwise once the deadline has passed
RetornoDaEspera(sinalizado) == IF sinalizado THEN "ok" ELSE "timeout"

\* value returned by estado_processando for each way it ends
RetornoProcessando(outcome) == PyBool(outcome = "ok")

\* ------------------------------------------------------ estado_processando
\* estado_processando returns r with the state machine at est (history h):
\* run goes on with lines 335-341, a direct caller (call record lc) just
\* gets the value
ProcRetorna(r, tn, est, h, lc) ==
    /\ procRet' = r
    /\ turn' = tn
    /\ IF caller = "run"
       THEN /\ estado_atual' = Transitar(est, RunAposProcessando(r)).estado
            /\ pc' = IF RunAposProcessando(r) = "RESPONDENDO"
                     THEN "respondendo_sleep" ELSE "head"
            /\ lastCall' = lc
       ELSE /\ estado_atual' = est
            /\ pc' = "test"
            /\ lastCall' = [lc EXCEPT !.ret = r]
    /\ hist' = HistApp(h, est, estado_atual')

\* estado_processando(t) up to its first await: transitar("PROCESSANDO"),
\* return False on an empty transcription, else call processar_prompt
ProcessandoEntra(t, tn, lc) ==
    LET est == Transitar(estado_atual, "PROCESSANDO").estado
        h   == HistApp(hist, estado_atual, est)
    IN  IF Falsy(t)
        THEN ProcRetorna("False", [tn EXCEPT !.outcome = "empty"], est, h, lc)
        ELSE /\ estado_atual' = est
             /\ hist' = h
             /\ turn' = [tn EXCEPT !.prompt = t, !.agentCalls = @ + 1,
                                   !.clearedFirst = (tn.clears = 1)]
             /\ pc' = "processando_call"
             /\ lastCall' = lc
             /\ UNCHANGED procRet

\* ------------------------------------------------------------------- run
\* while self.running: ... await self.estado_descanso() up to the blocking
\* call of detectar_wake_word
RunIterate ==
    /\ caller = "run" /\ pc = "head" /\ running
    /\ estado_atual' = Transitar(estado_atual, "DESCANSO").estado
    /\ hist' = <<estado_atual'>>
    /\ turn' = TurnInit
    /\ pc' = "descanso_listen"
    /\ UNCHANGED <<grav, sttVars, mainVars, det, fecho>>
    /\ UNCHANGED <<caller, platform, running, recording_complete, tasks,
                   procRet, exitKind, calls, lastCall>>

\* while self.running is false: leave the loop, finally: cleanup
RunExit ==
    /\ caller = "run" /\ pc = "head" /\ ~running
    /\ pc' = "cleanup"
    /\ exitKind' = "shutdown"
    /\ UNCHANGED <<grav, sttVars, mainVars, det, fecho>>
    /\ UNCHANGED <<caller, platform, estado_atual, running, recording_complete,
                   tasks, hist, turn, procRet, calls, lastCall>>

EntraAguardando_SemTransitar ==
    /\ UNCHANGED <<estado_atual, hist>>
    /\ pc' = "aguardando_sleep"
    /\ exitKind' = exitKind

\* estado_descanso returned True: run calls estado_aguardando, which
\* transits to AGUARDANDO and sleeps 0.5 s
EntraAguardando ==
    /\ estado_atual' = Transitar(estado_atual, "AGUARDANDO").estado
    /\ hist' = HistApp(hist, estado_atual, estado_atual')
    /\ pc' = "aguardando_sleep"
    /\ exitKind' = exitKind

RetornoDescanso_SemNovaEscuta(resultado, rodando) ==
    PyBool(resultado = "detected")

\* the value estado_descanso returns (lines 182-196) after the detector
\* reported resultado ("raised": the call raised and the 2 s sleep is over)
\* with self.running read as rodando
RetornoDescanso(resultado, rodando) ==
    IF resultado = "detected" THEN "True"
    ELSE IF resultado = "not_detected" THEN PyBool(rodando)
    ELSE "True"

\* run, after estado_descanso returned r (lines 317-321)
RunAposDescanso(r) ==
    IF r = "False"
    THEN /\ pc' = "cleanup"
         /\ exitKind' = "shutdown"
         /\ UNCHANGED <<estado_atual, hist>>
    ELSE EntraAguardando

\* detectar_wake_word returned detected=True
DescansoDetectou ==
    /\ caller = "run" /\ pc = "descanso_listen"
    /\ turn' = [turn EXCEPT !.wake = "detected", !.wakeRunning = running,
                            !.descanso = RetornoDescanso("detected", running)]
    /\ RunAposDescanso(RetornoDescanso("detected", running))
    /\ UNCHANGED <<grav, sttVars, mainVars, det, fecho>>
    /\ UNCHANGED <<caller, platform, running, recording_complete, tasks,
                   procRet, calls, lastCall>>

\* detectar_wake_word returned detected=False (it does so when the
\* microphone cannot be opened, on a listen timeout and on an interrupt)
DescansoNaoDetectou ==
    /\ caller = "run" /\ pc = "descanso_listen"
    /\ turn' = [turn EXCEPT !.wake = "not_detected", !.wakeRunning = running,
                            !.descanso = RetornoDescanso("not_detected", running)]
    /\ RunAposDescanso(RetornoDescanso("not_detected", running))
    /\ UNCHANGED <<grav, sttVars, mainVars, det, fecho>>
    /\ UNCHANGED <<caller, platform, running, recording_complete, tasks,
                   procRet, calls, lastCall>>

\* the detector call raised: log, await asyncio.sleep(2)
DescansoErro ==
    /\ caller = "run" /\ pc = "descanso_listen"
    /\ turn' = [turn EXCEPT !.wake = "raised", !.wakeRunning = running]
    /\ pc' = "descanso_sleep"
    /\ UNCHANGED <<grav, sttVars, mainVars, det, fecho>>
    /\ UNCHANGED <<caller, platform, estado_atual, running, recording_complete,
                   tasks, hist, procRet, exitKind, calls, lastCall>>

\* ... then return True
DescansoRetry ==
    /\ pc = "descanso_sleep"
    /\ IF caller = "run"
       THEN /\ turn' = [turn EXCEPT
                           !.descanso = RetornoDescanso("raised", running)]
            /\ RunAposDescanso(RetornoDescanso("raised", running))
            /\ UNCHANGED lastCall
       ELSE /\ pc' = "test"
            /\ lastCall' = [lastCall EXCEPT
                               !.ret = RetornoDescanso("raised", running)]
            /\ UNCHANGED <<estado_atual, hist, turn, exitKind>>
    /\ UNCHANGED <<grav, sttVars, mainVars, det, fecho>>
    /\ UNCHANGED <<caller, platform, running, recording_complete, tasks,
                   procRet, calls>>

\* estado_aguardando returned True; estado_gravando transits to GRAVANDO,
\* builds the Recognizer and the Microphone and blocks in r.listen
AguardandoParaGravando ==
    /\ caller = "run" /\ pc = "aguardando_sleep"
    /\ estado_atual' = Transitar(estado_atual, "GRAVANDO").estado
    /\ hist' = HistApp(hist, estado_atual, estado_atual')
    /\ pc' = "gravando_listen"
    /\ grav' = GravAberto
    /\ UNCHANGED <<sttVars, mainVars, det, fecho>>
    /\ UNCHANGED <<caller, platform, running, recording_complete, tasks,
                   turn, procRet, exitKind, calls, lastCall>>

\* sr.Microphone() raises (no input device, PyAudio missing): the two
\* constructors are outside the try of estado_gravando, so the exception
\* reaches "except Exception" of run
GravandoMicrofoneFalha ==
    /\ caller = "run" /\ pc = "aguardando_sleep"
    /\ estado_atual' = Transitar(estado_atual, "GRAVANDO").estado
    /\ hist' = HistApp(hist, estado_atual, estado_atual')
    /\ pc' = "cleanup"
    /\ exitKind' = "fatal"
    /\ grav' = [NoGrav EXCEPT !.ret = "raised", !.falha = "constructor"]
    /\ UNCHANGED <<sttVars, mainVars, det, fecho>>
    /\ UNCHANGED <<caller, platform, running, recording_complete, tasks,
                   turn, procRet, calls, lastCall>>

\* run, after estado_gravando returned t (lines 327-335), up to the first
\* await of estado_processando
RunAposGravando(t) ==
    LET tn == [turn EXCEPT !.transcript = IF t = "" THEN "empty" ELSE "nonempty"]
    IN  IF Falsy(t)
        THEN /\ estado_atual' = Transitar(estado_atual, "DESCANSO").estado
             /\ hist' = HistApp(hist, estado_atual, estado_atual')
             /\ turn' = [tn EXCEPT !.outcome = "empty"]
             /\ pc' = "head"
             /\ UNCHANGED <<recording_complete, procRet, lastCall>>
        ELSE /\ recording_complete' = EventClear(recording_complete)
             /\ ProcessandoEntra(t, [tn EXCEPT !.clears = @ + 1, !.sets = 0,
                                               !.velho = FALSE],
                                 lastCall)

\* estado_gravando returns t to its caller
GravandoRetorna(t) ==
    IF caller = "run"
    THEN RunAposGravando(t)
    ELSE /\ pc' = "test"
         /\ UNCHANGED <<estado_atual, hist, turn, recording_complete, procRet,
                        lastCall>>

\* the value of estado_gravando as its caller sees it
GravRet(t) == IF t = "" THEN "empty" ELSE "text"

\* Microphone.__exit__ at the end of "with mic as source", however the
\* block is left: normally, by WaitTimeoutError, by another exception, or
\* by an interrupt
SaiDoWith_SoNormal(mic, como) == IF como = "normal" THEN "closed" ELSE mic

SaiDoWith(mic, como) == "closed"

\* estado_gravando after r.listen: transcribe the audio, or return ""
GravandoAposListen_DescartaAudio(resultado) == "retorna_vazio"

GravandoAposListen(resultado) ==
    IF resultado = "audio" THEN "transcribe" ELSE "retorna_vazio"

\* stt_forte.transcrever_audio_file(audio) with credential key, when the
\* request, if one is sent, ends as o
TranscreverAudioFile_PropagaTimeout(key, o) ==
    IF ChaveInvalida(key)
    THEN [sent |-> FALSE, levantou |-> FALSE, ret |-> ""]
    ELSE [sent |-> TRUE, levantou |-> o = "timeout",
          ret |-> IF o = "ok_text" THEN "que horas sao"
                  ELSE IF o = "ok_blank" THEN " " ELSE ""]

TranscreverAudioFile(key, o) ==
    IF ChaveInvalida(key)
    THEN [sent |-> FALSE, levantou |-> FALSE, ret |-> ""]
    ELSE [sent |-> TRUE, levantou |-> FALSE,
          ret |-> IF o = "ok_text" THEN "que horas sao"
                  ELSE IF o = "ok_blank" THEN " " ELSE ""]

\* r.listen returned audio: the with block ends, await
\* transcrever_audio_file (which creates the HTTP client when the
\* credential passes its check)
GravandoCapturou ==
    /\ pc = "gravando_listen"
    /\ IF GravandoAposListen("audio") = "transcribe"
       THEN /\ pc' = "gravando_transcribe"
            /\ grav' = [grav EXCEPT !.mic = SaiDoWith(@, "normal"),
                                    !.audio = TRUE, !.tentou = TRUE]
            /\ fecho' = IF ChaveInvalida(DeepgramKey) THEN fecho
                        ELSE [fecho EXCEPT !.stt = "open"]
            /\ UNCHANGED <<estado_atual, hist, turn, recording_complete,
                           procRet, lastCall>>
       ELSE /\ GravandoRetorna("")
            /\ grav' = [grav EXCEPT !.mic = SaiDoWith(@, "normal"),
                                    !.audio = TRUE, !.ret = GravRet("")]
            /\ UNCHANGED fecho
    /\ UNCHANGED <<sttVars, mainVars, det>>
    /\ UNCHANGED <<caller, platform, running, tasks, exitKind, calls>>

\* r.listen raised WaitTimeoutError: return ""
GravandoSemFala ==
    /\ pc = "gravando_listen"
    /\ GravandoRetorna("")
    /\ grav' = [grav EXCEPT !.mic = SaiDoWith(@, "timeout"),
                            !.ret = GravRet(""), !.falha = "no_speech"]
    /\ UNCHANGED <<sttVars, mainVars, det, fecho>>
    /\ UNCHANGED <<caller, platform, running, tasks, exitKind, calls>>

\* opening the device or the capture raised another exception: return ""
GravandoErro ==
    /\ pc = "gravando_listen"
    /\ GravandoRetorna("")
    /\ grav' = [grav EXCEPT !.mic = SaiDoWith(@, "exception"),
                            !.ret = GravRet(""), !.falha = "capture"]
    /\ UNCHANGED <<sttVars, mainVars, det, fecho>>
    /\ UNCHANGED <<caller, platform, running, tasks, exitKind, calls>>

\* transcrever_audio_file is over, its request having ended as o: return
\* the transcript when it is not empty, "" otherwise; an exception would
\* be answered with "" by "except Exception"
GravandoTranscreveu(o) ==
    /\ pc = "gravando_transcribe"
    /\ LET r == TranscreverAudioFile(DeepgramKey, o)
           t == IF r.levantou THEN "" ELSE r.ret
       IN  /\ GravandoRetorna(t)
           /\ grav' = [grav EXCEPT
                  !.ret = GravRet(t),
                  !.falha = IF t = "" THEN "transcription" ELSE "none",
                  !.sent = r.sent,
                  !.stt = IF r.sent THEN o ELSE "none",
                  !.transc = IF r.levantou THEN "raised" ELSE GravRet(r.ret)]
    /\ UNCHANGED <<sttVars, mainVars, det, fecho>>
    /\ UNCHANGED <<caller, platform, running, tasks, exitKind, calls>>

\* the Stop hook of the agent runs while processar_prompt awaits query():
\* it schedules the synthesis callback as a task when the summary of the
\* final response is not empty
HookStop(resp) ==
    /\ pc = "processando_call"
    /\ turn.hook = "none"
    /\ ~EmBranco(turn.prompt)
    /\ GerarResumoTts(resp) # "" => tasks < MaxTasks
    /\ IF GerarResumoTts(resp) # ""
       THEN /\ tasks' = tasks + 1
            /\ turn' = [turn EXCEPT !.hook = "task", !.propria = "pending"]
       ELSE /\ tasks' = tasks
            /\ turn' = [turn EXCEPT !.hook = "empty"]
    /\ UNCHANGED <<grav, sttVars, mainVars, det, fecho>>
    /\ UNCHANGED <<caller, platform, pc, estado_atual, running,
                   recording_complete, hist, procRet, exitKind, calls, lastCall>>

\* agent.processar_prompt(t) when the reasoning service answers as srv:
\* the result dict, whether query() was called, whether the call raised
ProcessarPrompt_PropagaErro(t, srv) ==
    IF EmBranco(t) \/ srv \in {"import_error", "exception"}
    THEN [feito |-> TRUE, chamou |-> ~EmBranco(t) /\ srv = "exception",
          sucesso |-> FALSE, ferramentas |-> "vazia", custo |-> "zero",
          levantou |-> ~EmBranco(t) /\ srv = "exception"]
    ELSE [feito |-> TRUE, chamou |-> TRUE, sucesso |-> TRUE,
          ferramentas |-> IF srv = "ok_tools" THEN "usadas" ELSE "vazia",
          custo |-> "estimado", levantou |-> FALSE]

ProcessarPrompt(t, srv) ==
    IF EmBranco(t) \/ srv \in {"import_error", "exception"}
    THEN [feito |-> TRUE, chamou |-> ~EmBranco(t) /\ srv = "exception",
          sucesso |-> FALSE, ferramentas |-> "vazia", custo |-> "zero",
          levantou |-> FALSE]
    ELSE [feito |-> TRUE, chamou |-> TRUE, sucesso |-> TRUE,
          ferramentas |-> IF srv = "ok_tools" THEN "usadas" ELSE "vazia",
          custo |-> "estimado", levantou |-> FALSE]

\* processar_prompt is over, the service having answered as srv:
\* estado_processando waits for the completion signal when sucesso is
\* true and returns False otherwise; an exception would be answered with
\* False by "except Exception".  The Stop hook cannot have run when the
\* SDK is missing
AgenteRetorna(srv) ==
    /\ pc = "processando_call"
    /\ srv = "import_error" => turn.hook = "none"
    /\ LET res == ProcessarPrompt(turn.prompt, srv)
           tn  == [turn EXCEPT !.sucesso = IF res.levantou THEN "raised"
                                           ELSE PyBool(res.sucesso),
                               !.srv = IF EmBranco(turn.prompt) THEN "none"
                                       ELSE srv,
                               !.res = res]
       IN  IF res.levantou
           THEN ProcRetorna(RetornoProcessando("exception"),
                            [tn EXCEPT !.outcome = "exception"],
                            estado_atual, hist, lastCall)
           ELSE IF DepoisDoAgente(res.sucesso) = "wait"
           THEN /\ pc' = "processando_wait"
                /\ turn' = [tn EXCEPT !.waited = TRUE, !.setsAntes = turn.sets]
                /\ UNCHANGED <<estado_atual, hist, procRet, lastCall>>
           ELSE ProcRetorna(RetornoProcessando("agent_failed"),
                            [tn EXCEPT !.outcome = "agent_failed"],
                            estado_atual, hist, lastCall)
    /\ UNCHANGED <<grav, sttVars, mainVars, det, fecho>>
    /\ UNCHANGED <<caller, platform, running, recording_complete, tasks,
                   exitKind, calls>>

\* the call of processar_prompt raised: "except Exception", return False
AgenteLevanta ==
    /\ pc = "processando_call"
    /\ ProcRetorna(RetornoProcessando("exception"),
                   [turn EXCEPT !.sucesso = "raised", !.outcome = "exception"],
                   estado_atual, hist, lastCall)
    /\ UNCHANGED <<grav, sttVars, mainVars, det, fecho>>
    /\ UNCHANGED <<caller, platform, running, recording_complete, tasks,
                   exitKind, calls>>

\* wait_for(recording_complete.wait(), 30.0) ends with the flag set
ProcessandoWaitOk ==
    /\ pc = "processando_wait"
    /\ recording_complete
    /\ LET o == RetornoDaEspera(recording_complete)
       IN  ProcRetorna(RetornoProcessando(o),
                       [turn EXCEPT !.outcome = o, !.fim = "signalled"],
                       estado_atual, hist, lastCall)
    /\ UNCHANGED <<grav, sttVars, mainVars, det, fecho>>
    /\ UNCHANGED <<caller, platform, running, recording_complete, tasks,
                   exitKind, calls>>

\* the 30 s deadline passes with the flag still pending
ProcessandoWaitTimeout ==
    /\ pc = "processando_wait"
    /\ ~recording_complete
    /\ LET o == RetornoDaEspera(recording_complete)
       IN  ProcRetorna(RetornoProcessando(o),
                       [turn EXCEPT !.outcome = o, !.fim = "deadline"],
                       estado_atual, hist, lastCall)
    /\ UNCHANGED <<grav, sttVars, mainVars, det, fecho>>
    /\ UNCHANGED <<caller, platform, running, recording_complete, tasks,
                   exitKind, calls>>

\* ------------------------------------------------------ estado_respondendo
\* after transitar("RESPONDENDO") and the 1 s sleep: transitar("DESCANSO")
RespondendoFim ==
    /\ pc = "respondendo_sleep"
    /\ estado_atual' = Transitar(estado_atual, "DESCANSO").estado
    /\ hist' = HistApp(hist, estado_atual, estado_atual')
    /\ pc' = IF caller = "run" THEN "head" ELSE "test"
    /\ lastCall' = IF caller = "run" THEN lastCall
                   ELSE [lastCall EXCEPT !.ret = "None"]
    /\ UNCHANGED <<grav, sttVars, mainVars, det, fecho>>
    /\ UNCHANGED <<caller, platform, running, recording_complete, tasks,
                   turn, procRet, exitKind, calls>>

\* ------------------------------------------------------ _on_agent_response
\* synthesis tasks created by the hook in earlier turns and still pending
TasksAntigas == tasks - (IF turn.propria = "pending" THEN 1 ELSE 0)

\* a synthesis task finishes: tts.falar returned, recording_complete.set().
\* The task is the one created in this turn (da_vez) or one left over from
\* an earlier turn; the event does not tell them apart
TtsTaskConclui(da_vez) ==
    /\ tasks > 0
    /\ pc \in AwaitPoints
    /\ IF da_vez THEN turn.propria = "pending" ELSE TasksAntigas > 0
    /\ tasks' = tasks - 1
    /\ recording_complete' = EventSet(recording_complete)
    /\ turn' = IF da_vez
               THEN [turn EXCEPT !.sets = @ + 1, !.propria = "done"]
               ELSE [turn EXCEPT !.sets = @ + 1, !.velho = TRUE]
    /\ fecho' = IF ChaveInvalida(CartesiaKey) THEN fecho
                ELSE [fecho EXCEPT !.tts = "open"]
    /\ UNCHANGED <<grav, sttVars, mainVars, det>>
    /\ UNCHANGED <<caller, platform, pc, estado_atual, running, hist,
                   procRet, exitKind, calls, lastCall>>

\* ---------------------------------------------------------------- shutdown
\* _signal_handler: SIGINT or SIGTERM where the handlers are installed
SignalHandler ==
    /\ caller = "run"
    /\ HandlersInstalados
    /\ pc \notin {"main", "done", "exited"}
    /\ running' = FALSE
    /\ UNCHANGED <<grav, sttVars, mainVars, det, fecho>>
    /\ UNCHANGED <<caller, platform, pc, estado_atual, recording_complete,
                   tasks, hist, turn, procRet, exitKind, calls, lastCall>>

\* Ctrl+C where no handler is installed: the interrupt unwinds run from the
\* point where it is suspended to "finally: await self.cleanup()"
KeyboardInterrupt ==
    /\ caller = "run"
    /\ ~HandlersInstalados
    /\ pc \in InterruptPoints
    /\ pc' = "cleanup"
    /\ exitKind' = "interrupt"
    /\ grav' = IF pc = "gravando_listen"
               THEN [grav EXCEPT !.mic = SaiDoWith(@, "interrupt")]
               ELSE grav
    /\ UNCHANGED <<sttVars, mainVars, det, fecho>>
    /\ UNCHANGED <<caller, platform, estado_atual, running, recording_complete,
                   tasks, hist, turn, procRet, calls, lastCall>>

\* client.aclose() of one close(): it ends, or it raises
Fecha(cliente, levanta) == IF levanta THEN cliente ELSE "none"

\* cleanup(): await stt_forte.close(), then await tts.close(), then remove
\* the temporary files; an exception of the first close leaves cleanup at
\* once.  falha names the close whose aclose() raises; a close of a
\* collaborator that has no client calls nothing that can raise
Cleanup(falha) ==
    /\ caller = "run"
    /\ pc = "cleanup"
    /\ falha = "stt" => fecho.stt = "open"
    /\ falha = "tts" => fecho.tts = "open"
    /\ pc' = "done"
    /\ fecho' = IF falha = "stt"
                THEN [fecho EXCEPT !.stt = Fecha(@, TRUE),
                                   !.cleanup = "stt_raised"]
                ELSE [stt |-> Fecha(fecho.stt, FALSE),
                      tts |-> Fecha(fecho.tts, falha = "tts"),
                      cleanup |-> IF falha = "tts" THEN "tts_raised" ELSE "ok"]
    /\ UNCHANGED <<grav, sttVars, mainVars, det>>
    /\ UNCHANGED <<caller, platform, estado_atual, running, recording_complete,
                   tasks, hist, turn, procRet, exitKind, calls, lastCall>>

\* ------------------------------------------------------------------- main
\* what leaves main alone
MainFrame ==
    /\ UNCHANGED <<grav, sttVars, fecho, env, det>>
    /\ UNCHANGED <<caller, platform, estado_atual, running, recording_complete,
                   tasks, hist, turn, procRet, exitKind, calls, lastCall>>

\* main: one of the two credentials fails the check of lines 378-386
MainCredencialInvalida ==
    /\ caller = "run" /\ pc = "main"
    /\ ChaveInvalida(DeepgramKey) \/ ChaveInvalida(CartesiaKey)
    /\ pc' = "exited"
    /\ exitCode' = "1"
    /\ MainFrame

\* main: both credentials pass; NeroAssistant(...) is constructed and run
\* starts, or the construction (or the start of run, before its try)
\* raises and main returns 1
MainInicia(levanta) ==
    /\ caller = "run" /\ pc = "main"
    /\ ~(ChaveInvalida(DeepgramKey) \/ ChaveInvalida(CartesiaKey))
    /\ IF levanta
       THEN pc' = "exited" /\ exitCode' = "1"
       ELSE pc' = "head" /\ exitCode' = exitCode
    /\ MainFrame

\* run has returned to main: "return 0"; when cleanup raised, the
\* exception left run through its finally and main returns 1
MainRetorna ==
    /\ caller = "run" /\ pc = "done"
    /\ pc' = "exited"
    /\ exitCode' = IF fecho.cleanup \in {"stt_raised", "tts_raised"}
                   THEN "1" ELSE "0"
    /\ MainFrame

\* ------------------------------------------------------------ direct calls
\* state_machine.transitar(n)
TestTransitar(n) ==
    /\ caller = "test" /\ pc = "test" /\ calls < MaxCalls
    /\ estado_atual' = Transitar(estado_atual, n).estado
    /\ hist' = HistApp(hist, estado_atual, estado_atual')
    /\ lastCall' = [op |-> "transitar", arg |-> n, pre |-> estado_atual,
                    ret |-> PyBool(Transitar(estado_atual, n).ok)]
    /\ calls' = calls + 1
    /\ UNCHANGED <<grav, sttVars, mainVars, det, fecho>>
    /\ UNCHANGED <<caller, platform, pc, running, recording_complete, tasks,
                   turn, procRet, exitKind>>

\* await estado_descanso() with the detector reporting resultado
TestDescanso(resultado) ==
    /\ caller = "test" /\ pc = "test" /\ calls < MaxCalls
    /\ calls' = calls + 1
    /\ estado_atual' = Transitar(estado_atual, "DESCANSO").estado
    /\ hist' = HistApp(hist, estado_atual, estado_atual')
    /\ pc' = IF resultado = "raised" THEN "descanso_sleep" ELSE "test"
    /\ lastCall' = [op |-> "descanso", arg |-> resultado, pre |-> estado_atual,
                    ret |-> IF resultado = "raised" THEN "none"
                            ELSE RetornoDescanso(resultado, running)]
    /\ UNCHANGED <<grav, sttVars, mainVars, det, fecho>>
    /\ UNCHANGED <<caller, platform, running, recording_complete, tasks,
                   turn, procRet, exitKind>>

\* await estado_processando(t)
TestProcessando(t) ==
    /\ caller = "test" /\ pc = "test" /\ calls < MaxCalls
    /\ calls' = calls + 1
    /\ ProcessandoEntra(t,
           [TurnInit EXCEPT !.transcript = IF t = "" THEN "empty" ELSE "nonempty"],
           [op |-> "processando", arg |-> t, pre |-> estado_atual, ret |-> "none"])
    /\ UNCHANGED <<grav, sttVars, mainVars, det, fecho>>
    /\ UNCHANGED <<caller, platform, running, recording_complete, tasks,
                   exitKind>>

\* await estado_respondendo()
TestRespondendo ==
    /\ caller = "test" /\ pc = "test" /\ calls < MaxCalls
    /\ calls' = calls + 1
    /\ estado_atual' = Transitar(estado_atual, "RESPONDENDO").estado
    /\ hist' = HistApp(hist, estado_atual, estado_atual')
    /\ pc' = "respondendo_sleep"
    /\ lastCall' = [op |-> "respondendo", arg |-> "", pre |-> estado_atual,
                    ret |-> "none"]
    /\ UNCHANGED <<grav, sttVars, mainVars, det, fecho>>
    /\ UNCHANGED <<caller, platform, running, recording_complete, tasks,
                   turn, procRet, exitKind>>

\* await estado_gravando(): transitar, then the two constructors of lines
\* 226-227, which are outside the try; when they succeed the call blocks
\* in r.listen with its own microphone open
TestGravando(constroi) ==
    /\ caller \in {"test", "stt"} /\ pc = "test" /\ calls < MaxCalls
    /\ calls' = calls + 1
    /\ estado_atual' = Transitar(estado_atual, "GRAVANDO").estado
    /\ hist' = HistApp(hist, estado_atual, estado_atual')
    /\ lastCall' = [op |-> "gravando", arg |-> "", pre |-> estado_atual,
                    ret |-> "none"]
    /\ IF constroi
       THEN pc' = "gravando_listen" /\ grav' = GravAberto
       ELSE /\ pc' = "test"
            /\ grav' = [NoGrav EXCEPT !.ret = "raised", !.falha = "constructor"]
    /\ UNCHANGED <<sttVars, mainVars, det, fecho>>
    /\ UNCHANGED <<caller, platform, running, recording_complete, tasks,
                   turn, procRet, exitKind>>

\* ------------------------------------------- STTFraco stop-word detection
\* the listeners that have been started and have not returned
Vivos == {i \in Listeners : lst[i].pc \notin {"unborn", "dead"}}

\* Queue.put by listener i on the queue self._stop_word_queue names now
Put(q, i, kind) == Append(q, [src |-> i, n |-> nputs + 1, kind |-> kind])

\* the queue after get_nowait took its head
FilaAposGet_SemRemover(q) == q

FilaAposGet(q) == Tail(q)

\* stt_fraco.aguardar_palavra_parada(...): clears the flag, binds a new
\* queue and starts a daemon thread; threads started before keep running
AguardarPalavraParada ==
    /\ caller = "stt" /\ pc = "test" /\ calls < MaxCalls
    /\ \E i \in Listeners :
          /\ lst[i].pc = "unborn"
          /\ \A j \in Listeners : j < i => lst[j].pc # "unborn"
          /\ lst' = [lst EXCEPT ![i].pc = "start"]
    /\ stop_word_detected' = FALSE
    /\ fila' = <<>>
    /\ calls' = calls + 1
    /\ lastCall' = [op |-> "aguardar", arg |-> "", pre |-> estado_atual,
                    ret |-> "None"]
    /\ UNCHANGED <<loopEmThread, temMicrofone, nputs, micDono, entregues, consulta>>
    /\ UNCHANGED <<caller, platform, pc, estado_atual, running,
                   recording_complete, tasks, hist, turn, procRet, exitKind,
                   grav, mainVars, det, fecho>>

ListenerFrame_ParaOLaco ==
    /\ running' = FALSE
    /\ UNCHANGED <<loopEmThread, temMicrofone, entregues, consulta>>
    /\ UNCHANGED <<caller, platform, pc, estado_atual,
                   recording_complete, tasks, hist, turn, procRet, exitKind,
                   calls, lastCall, grav, mainVars, det, fecho>>

\* what a step of a listener thread leaves alone
ListenerFrame ==
    /\ UNCHANGED <<loopEmThread, temMicrofone, entregues, consulta>>
    /\ UNCHANGED <<caller, platform, pc, estado_atual, running,
                   recording_complete, tasks, hist, turn, procRet, exitKind,
                   calls, lastCall, grav, mainVars, det, fecho>>

\* lines 210-211 pass: the thread got the microphone and a clock
ListenerStart(i) ==
    /\ lst[i].pc = "start"
    /\ temMicrofone /\ loopEmThread
    /\ lst' = [lst EXCEPT ![i].pc = "check"]
    /\ UNCHANGED <<fila, nputs, micDono, stop_word_detected>>
    /\ ListenerFrame

\* _get_microphone() raises, or asyncio.get_event_loop() raises RuntimeError
\* because the thread has no event loop: the outer "except Exception" puts
\* the error event and the thread ends
ListenerFatal(i) ==
    /\ lst[i].pc = "start"
    /\ ~temMicrofone \/ ~loopEmThread
    /\ nputs < MaxPuts
    /\ fila' = Put(fila, i, "error")
    /\ nputs' = nputs + 1
    /\ lst' = [lst EXCEPT ![i].pc = "dead", ![i].puts = @ + 1]
    /\ UNCHANGED <<micDono, stop_word_detected>>
    /\ ListenerFrame

\* head of the loop with elapsed >= timeout_segundos
ListenerTimeout(i) ==
    /\ lst[i].pc = "check"
    /\ nputs < MaxPuts
    /\ fila' = Put(fila, i, "timeout")
    /\ nputs' = nputs + 1
    /\ lst' = [lst EXCEPT ![i].pc = "dead", ![i].puts = @ + 1]
    /\ UNCHANGED <<micDono, stop_word_detected>>
    /\ ListenerFrame

\* "with mic as source": the thread opens the device and blocks in listen.
\* STTFraco.microphone is one object for all listeners; entering it while
\* another thread is inside fails, and the loop continues
ListenerAbre(i) ==
    /\ lst[i].pc = "check"
    /\ micDono = 0
    /\ micDono' = i
    /\ lst' = [lst EXCEPT ![i].pc = "listen"]
    /\ UNCHANGED <<fila, nputs, stop_word_detected>>
    /\ ListenerFrame

\* listen timed out, the audio was not understood or it held no stop word
\* (motivo = "nada"), or recognize_sphinx raised RequestError and
\* recognize_google found no stop word or raised too (motivo =
\* "erro_servico", lines 252-269): continue
ListenerNaoReconhece(i, motivo) ==
    /\ lst[i].pc = "listen"
    /\ micDono' = 0
    /\ lst' = [lst EXCEPT ![i].pc = "check",
                          ![i].ouviu = IF motivo = "nada" THEN @ ELSE motivo]
    /\ UNCHANGED <<fila, nputs, stop_word_detected>>
    /\ ListenerFrame

\* a stop word was recognized: flag, put, callback(stop_word).  When the
\* callback returns the thread returns; when it raises, "except Exception"
\* of the loop body catches it and the loop continues
ListenerDetecta(i, cbLevanta) ==
    /\ lst[i].pc = "listen"
    /\ nputs < MaxPuts
    /\ micDono' = 0
    /\ stop_word_detected' = TRUE
    /\ fila' = Put(fila, i, "stop")
    /\ nputs' = nputs + 1
    /\ lst' = [lst EXCEPT ![i].pc = IF cbLevanta THEN "check" ELSE "dead",
                          ![i].puts = @ + 1]
    /\ ListenerFrame

\* the listener started by the latest call of aguardar_palavra_parada:
\* listeners are started in the order of their numbers
Ultimo == Cardinality({i \in Listeners : lst[i].pc # "unborn"})

\* what get_nowait hands to verificar_palavra_parada_detectada: the head of
\* the queue, or None after queue.Empty
GetNowait(q) == IF q = <<>> THEN NoEvent ELSE Head(q)

\* stt_fraco.verificar_palavra_parada_detectada(): get_nowait, None on Empty
VerificarPalavraParada ==
    /\ caller = "stt" /\ pc = "test" /\ calls < MaxCalls
    /\ calls' = calls + 1
    /\ IF fila = <<>>
       THEN /\ consulta' = [feita |-> TRUE, vazia |-> TRUE,
                             ret |-> GetNowait(fila), atual |-> Ultimo]
            /\ UNCHANGED <<fila, entregues>>
       ELSE /\ consulta' = [feita |-> TRUE, vazia |-> FALSE,
                             ret |-> GetNowait(fila), atual |-> Ultimo]
            /\ fila' = FilaAposGet(fila)
            /\ entregues' = Append(entregues, GetNowait(fila))
    /\ lastCall' = [op |-> "verificar", arg |-> "", pre |-> estado_atual,
                    ret |-> IF fila = <<>> THEN "None" ELSE "event"]
    /\ UNCHANGED <<loopEmThread, temMicrofone, lst, nputs, micDono, stop_word_detected>>
    /\ UNCHANGED <<caller, platform, pc, estado_atual, running,
                   recording_complete, tasks, hist, turn, procRet, exitKind,
                   grav, mainVars, det, fecho>>

\* stt_fraco.stop_detection(): sets the flag, which no listener reads
StopDetection ==
    /\ caller = "stt" /\ pc = "test" /\ calls < MaxCalls
    /\ calls' = calls + 1
    /\ stop_word_detected' = TRUE
    /\ lastCall' = [op |-> "stop_detection", arg |-> "", pre |-> estado_atual,
                    ret |-> "None"]
    /\ UNCHANGED <<loopEmThread, temMicrofone, lst, fila, nputs, micDono,
                   entregues, consulta>>
    /\ UNCHANGED <<caller, platform, pc, estado_atual, running,
                   recording_complete, tasks, hist, turn, procRet, exitKind,
                   grav, mainVars, det, fecho>>

\* ------------------------------------------- STTFraco.detectar_wake_word
\* str.upper() on one character
Upper(c) == CASE c = "a" -> "A" [] c = "b" -> "B" [] OTHER -> c

\* str.upper()
UpperSeq(t) == [i \in DOMAIN t |-> Upper(t[i])]

\* str.strip(): blanks at both ends removed
RECURSIVE Strip(_)
Strip(t) ==
    IF t = <<>> THEN t
    ELSE IF Head(t) = " " THEN Strip(Tail(t))
    ELSE IF t[Len(t)] = " " THEN Strip(SubSeq(t, 1, Len(t) - 1))
    ELSE t

\* "frase in t" of two str
Contem(frase, t) ==
    \E i \in 0..Len(t) :
        /\ i + Len(frase) <= Len(t)
        /\ SubSeq(t, i + 1, i + Len(frase)) = frase

\* "for wake_word in wake_words: if wake_word.upper() in texto_upper:" from
\* the i-th phrase on (lines 143-149): the result at the first match
RECURSIVE ProcuraFrase(_, _, _)
ProcuraFrase(wake_words, texto_upper, i) ==
    IF i > Len(wake_words) THEN NoResult
    ELSE IF Contem(UpperSeq(wake_words[i]), texto_upper)
         THEN [detected |-> TRUE, palavra |-> wake_words[i]]
         ELSE ProcuraFrase(wake_words, texto_upper, i + 1)

\* one recognized text checked against the phrases (lines 137-149, 160-171)
VerificaTexto(wake_words, texto) ==
    ProcuraFrase(wake_words, Strip(UpperSeq(texto)), 1)

\* what a step of detectar_wake_word leaves alone
DetFrame ==
    /\ UNCHANGED <<grav, sttVars, mainVars, fecho>>
    /\ UNCHANGED <<caller, platform, pc, estado_atual, running,
                   recording_complete, tasks, hist, turn, procRet, exitKind,
                   calls, lastCall>>

\* detectar_wake_word(wake_words, timeout_segundos) is called: the
\* microphone is there and the loop is entered, or _get_microphone (or the
\* calibration) raises and the outer "except Exception" returns result
DetectarChama(falha) ==
    /\ caller = "wake" /\ det.fase = "idle"
    /\ det' = IF falha
              THEN [det EXCEPT !.fase = "returned", !.motivo = "fatal"]
              ELSE [det EXCEPT !.fase = "listen"]
    /\ DetFrame

\* an attempt in which a recognizer handed back texto: recognize_sphinx
\* (via = "sphinx"), or recognize_google after recognize_sphinx raised
\* RequestError (via = "google")
DetectarOuve(texto, via) ==
    /\ caller = "wake" /\ det.fase = "listen"
    /\ det' = [det EXCEPT
                 !.texto = texto, !.motivo = via,
                 !.erroServico = (via = "google"),
                 !.result = VerificaTexto(det.wake_words, texto),
                 !.fase = IF VerificaTexto(det.wake_words, texto).detected
                          THEN "returned" ELSE "listen"]
    /\ DetFrame

\* an attempt without a text: UnknownValueError (line 151), RequestError
\* followed by a failure of recognize_google (line 172), or another
\* exception out of listen (line 179); all three continue the loop
DetectarSemTexto(motivo) ==
    /\ caller = "wake" /\ det.fase = "listen"
    /\ det' = [det EXCEPT
                 !.texto = <<>>, !.motivo = motivo,
                 !.erroServico = (motivo = "google_falhou")]
    /\ DetFrame

\* listen raised WaitTimeoutError, which needs a timeout (line 175), or
\* KeyboardInterrupt (line 183): both return the result as it stands
DetectarDesiste(motivo) ==
    /\ caller = "wake" /\ det.fase = "listen"
    /\ motivo = "timeout" => det.temTimeout
    /\ det' = [det EXCEPT !.fase = "returned", !.motivo = motivo,
                          !.texto = <<>>, !.erroServico = FALSE]
    /\ DetFrame


\* ------------------------------------------------------------------- Next
Next ==
    \/ RunIterate
    \/ RunExit
    \/ DescansoDetectou
    \/ DescansoNaoDetectou
    \/ DescansoErro
    \/ DescansoRetry
    \/ AguardandoParaGravando
    \/ GravandoMicrofoneFalha
    \/ GravandoCapturou
    \/ GravandoSemFala
    \/ GravandoErro
    \/ \E o \in DeepgramOutcomes : GravandoTranscreveu(o)
    \/ \E resp \in Respostas : HookStop(resp)
    \/ \E srv \in AgenteServico : AgenteRetorna(srv)
    \/ AgenteLevanta
    \/ ProcessandoWaitOk
    \/ ProcessandoWaitTimeout
    \/ RespondendoFim
    \/ \E da_vez \in BOOLEAN : TtsTaskConclui(da_vez)
    \/ SignalHandler
    \/ KeyboardInterrupt
    \/ \E falha \in {"none", "stt", "tts"} : Cleanup(falha)
    \/ MainCredencialInvalida
    \/ \E levanta \in BOOLEAN : MainInicia(levanta)
    \/ MainRetorna
    \/ \E n \in Nomes : TestTransitar(n)
    \/ \E resultado \in {"detected", "not_detected", "raised"} :
          TestDescanso(resultado)
    \/ \E t \in Transcricoes : TestProcessando(t)
    \/ TestRespondendo
    \/ \E constroi \in BOOLEAN : TestGravando(constroi)
    \/ AguardarPalavraParada
    \/ \E i \in Listeners : ListenerStart(i)
    \/ \E i \in Listeners : ListenerFatal(i)
    \/ \E i \in Listeners : ListenerTimeout(i)
    \/ \E i \in Listeners : ListenerAbre(i)
    \/ \E i \in Listeners, motivo \in {"nada", "erro_servico"} :
          ListenerNaoReconhece(i, motivo)
    \/ \E i \in Listeners, cbLevanta \in BOOLEAN : ListenerDetecta(i, cbLevanta)
    \/ VerificarPalavraParada
    \/ StopDetection
    \/ \E falha \in BOOLEAN : DetectarChama(falha)
    \/ \E texto \in Textos, via \in {"sphinx", "google"} :
          DetectarOuve(texto, via)
    \/ \E motivo \in {"unknown_value", "google_falhou", "erro_no_listen"} :
          DetectarSemTexto(motivo)
    \/ \E motivo \in {"timeout", "interrupt"} : DetectarDesiste(motivo)

Spec == Init /\ [][Next]_vars

\* the timer of asyncio.wait_for always fires: a wait on the completion
\* signal that can end does end
FairSpec ==
    /\ Spec
    /\ WF_vars(ProcessandoWaitOk)
    /\ WF_vars(ProcessandoWaitTimeout)

\* ================================================================== claims
TurnoCompleto == <<"DESCANSO", "AGUARDANDO", "GRAVANDO", "PROCESSANDO",
                   "RESPONDENDO", "DESCANSO">>

\* C1: in run, when the wake-word detector reported no detection (or
\* raised) while the shutdown flag was not set, the session stays in
\* DESCANSO for that iteration: neither estado_aguardando nor
\* estado_gravando is called, so the state never leaves DESCANSO.
C1_ClaimStaysIdle ==
    (caller = "run" /\ turn.wake \in {"not_detected", "raised"} /\ turn.wakeRunning)
        => (estado_atual = "DESCANSO" /\ hist = <<"DESCANSO">>)

\* C2: run never finishes with the session state left outside DESCANSO
\* (at PROCESSANDO, GRAVANDO, AGUARDANDO or RESPONDENDO).
C2_ClaimEndsIdle ==
    (caller = "run" /\ pc \in {"cleanup", "done"}) => estado_atual = "DESCANSO"

\* C3 (as claimed): in run every change of the session state away from
\* PROCESSANDO goes to RESPONDENDO, on failure and timeout paths too.
C3_ClaimAlwaysReplying ==
    [][(caller = "run" /\ estado_atual = "PROCESSANDO"
            /\ estado_atual' # estado_atual)
        => estado_atual' = "RESPONDENDO"]_vars

\* C3 (amended): in run the session state leaves PROCESSANDO for
\* RESPONDENDO exactly when estado_processando returned True and for
\* DESCANSO, skipping RESPONDENDO, when it returned False; it leaves
\* RESPONDENDO only for DESCANSO.
C3_ExitsOfDispatching ==
    [][/\ (caller = "run" /\ estado_atual = "PROCESSANDO"
               /\ estado_atual' # estado_atual)
          => \/ (procRet' = "True" /\ estado_atual' = "RESPONDENDO")
             \/ (procRet' = "False" /\ estado_atual' = "DESCANSO")
       /\ (caller = "run" /\ estado_atual = "RESPONDENDO"
               /\ estado_atual' # estado_atual)
          => estado_atual' = "DESCANSO"]_vars

\* a failed dispatch has gone from PROCESSANDO straight back to DESCANSO
C3_Witness ==
    /\ caller = "run" /\ pc = "head" /\ procRet = "False"
    /\ hist = <<"DESCANSO", "AGUARDANDO", "GRAVANDO", "PROCESSANDO", "DESCANSO">>

\* C4: a turn whose transcript is empty never calls processar_prompt; in
\* run it ends with the state DESCANSO, and estado_processando("") called
\* directly returns False.
C4_EmptyTranscriptNoDispatch ==
    /\ turn.transcript = "empty" => turn.agentCalls = 0
    /\ (caller = "run" /\ turn.transcript = "empty") => estado_atual = "DESCANSO"
    /\ (caller = "test" /\ lastCall.op = "processando" /\ lastCall.arg = "")
          => (lastCall.ret = "False" /\ pc = "test")

\* run has short-circuited a turn after an empty transcript
C4_Witness ==
    /\ caller = "run" /\ pc = "head" /\ turn.transcript = "empty"
    /\ hist = <<"DESCANSO", "AGUARDANDO", "GRAVANDO", "DESCANSO">>

\* C5: when processar_prompt returns sucesso=False, estado_processando
\* returns False without waiting on the completion signal; in run the
\* state is back at DESCANSO and the loop goes on (it is left only by a
\* shutdown request).
C5_AgentFailure ==
    turn.sucesso = "False"
        => /\ procRet = "False"
           /\ ~turn.waited
           /\ turn.fim = "none"
           /\ caller = "run"
                => /\ estado_atual = "DESCANSO"
                   /\ pc = "head" \/ exitKind = "shutdown"
           /\ (caller = "test" /\ lastCall.op = "processando")
                => (lastCall.ret = "False" /\ pc = "test")

\* a dispatched turn whose reasoning call failed is back at the loop head
C5_Witness ==
    /\ caller = "run" /\ pc = "head" /\ running
    /\ turn.sucesso = "False" /\ turn.prompt = "que horas sao"

\* C6: when the reasoning call succeeded and the response-wait deadline
\* passes with the completion signal still pending, estado_processando
\* returns False through the timeout branch (not the reasoning-failure
\* branch) and, in run, the state is back at DESCANSO.
C6_ResponseTimeout ==
    turn.fim = "deadline"
        => /\ turn.sucesso = "True"
           /\ turn.outcome = "timeout"
           /\ procRet = "False"
           /\ caller = "run" => estado_atual = "DESCANSO"
           /\ (caller = "test" /\ lastCall.op = "processando")
                => lastCall.ret = "False"

\* a turn of run has ended by the response-wait deadline
C6_Witness ==
    /\ caller = "run" /\ pc = "head" /\ turn.fim = "deadline"
    /\ ~recording_complete

\* C7: transitar called with one of the five defined states returns True
\* and leaves the state equal to its argument, after any sequence of
\* earlier calls, also when the argument is the current state.
C7_ValidTransition ==
    (lastCall.op = "transitar" /\ lastCall.arg \in ESTADOS)
        => (lastCall.ret = "True" /\ estado_atual = lastCall.arg)

\* transitar(S) has been called twice in a row, S not the initial state
C7_Witness ==
    /\ lastCall.op = "transitar" /\ lastCall.arg = "GRAVANDO"
    /\ lastCall.pre = "GRAVANDO" /\ calls = 2

\* C8: transitar called with a name that is not a defined state returns
\* False and leaves the state as it was, whatever the current state.
C8_InvalidTransition ==
    (lastCall.op = "transitar" /\ lastCall.arg \notin ESTADOS)
        => (lastCall.ret = "False" /\ estado_atual = lastCall.pre)

\* an unknown name has been rejected in a state other than the initial one
C8_Witness ==
    /\ lastCall.op = "transitar" /\ lastCall.arg = "UNKNOWN"
    /\ lastCall.pre = "RESPONDENDO"

\* C9: a turn of run in which the wake word was detected, the transcript
\* was not empty, the reasoning call succeeded and the wait ended with the
\* signal set has taken the states DESCANSO, AGUARDANDO, GRAVANDO,
\* PROCESSANDO, RESPONDENDO, DESCANSO in that order with estado_processando
\* returning True; estado_respondendo called directly ends in DESCANSO from
\* any state.
C9_SuccessfulTurn ==
    /\ (caller = "run" /\ pc = "head" /\ turn.wake = "detected"
            /\ turn.transcript = "nonempty" /\ turn.sucesso = "True"
            /\ turn.fim = "signalled")
          => (hist = TurnoCompleto /\ procRet = "True")
    /\ (caller = "test" /\ lastCall.op = "respondendo" /\ lastCall.ret = "None")
          => estado_atual = "DESCANSO"

\* a successful turn has completed, its own synthesis task having signalled
C9_Witness ==
    /\ caller = "run" /\ pc = "head" /\ turn.wake = "detected"
    /\ turn.sucesso = "True" /\ turn.fim = "signalled" /\ turn.hook = "task"
    /\ hist = TurnoCompleto

\* C10: in a turn of run that calls processar_prompt the completion signal
\* has been cleared exactly once, after the non-empty transcript and before
\* the call; a turn that does not dispatch does not clear it; and every set
\* after the clear, the second one included, leaves the flag set.
C10_RearmOncePerTurn ==
    /\ (caller = "run" /\ turn.agentCalls > 0)
          => (turn.clears = 1 /\ turn.clearedFirst /\ turn.agentCalls = 1
                /\ turn.transcript = "nonempty")
    /\ (caller = "run" /\ turn.agentCalls = 0) => turn.clears = 0
    /\ turn.sets > 0 => recording_complete

\* two synthesis tasks have set the signal after the clear of one turn
C10_Witness ==
    /\ caller = "run" /\ turn.clears = 1 /\ turn.sets = 2

\* C11: a set issued after the reset is never lost: while the orchestrator
\* is about to wait or waiting, the flag is set as soon as one set has been
\* issued since the reset, and a wait that ends (other than by an
\* interrupt) after such a set ends in success, also when the set came
\* before the wait started.
C11_SignalNotLost ==
    [][/\ (pc' = "processando_wait" /\ turn'.sets > 0) => recording_complete'
       /\ (pc = "processando_wait" /\ pc' \notin {"processando_wait", "cleanup"}
               /\ turn.sets > 0)
          => (turn'.fim = "signalled" /\ turn'.outcome = "ok"
                /\ procRet' = "True")]_vars

\* the signal came between the reset and the start of the wait, which
\* then returned success
C11_Witness ==
    /\ caller = "run" /\ turn.clears = 1 /\ turn.setsAntes = 1
    /\ turn.fim = "signalled" /\ procRet = "True"

\* C12: two sets issued before the wait starts leave the flag set, as one
\* set does, and the next wait returns success, never the timeout.
C12_DoubleSetIsOneSet ==
    turn.setsAntes >= 2
        => /\ recording_complete
           /\ turn.fim # "deadline"
           /\ turn.fim = "signalled" => (turn.outcome = "ok" /\ procRet = "True")

\* the signal was set twice before the wait, which returned success
C12_Witness ==
    /\ turn.setsAntes = 2 /\ turn.fim = "signalled" /\ procRet = "True"

\* C13: a wait that follows the reset and during which no set is issued
\* ends, and ends only by the timeout: estado_processando returns False
\* through the timeout branch and the flag is still pending afterwards.
C13_TimeoutWhenNoSignal ==
    /\ [][(pc = "processando_wait" /\ pc' \notin {"processando_wait", "cleanup"}
               /\ turn.clears = 1 /\ turn.sets = 0)
          => (turn'.fim = "deadline" /\ turn'.outcome = "timeout"
                /\ procRet' = "False" /\ ~recording_complete')]_vars
    /\ [](pc = "processando_wait" => <>(pc # "processando_wait"))

\* a wait with nothing scheduled to set the signal has timed out
C13_Witness ==
    /\ caller = "run" /\ pc = "head" /\ turn.clears = 1 /\ turn.sets = 0
    /\ turn.hook = "empty" /\ turn.fim = "deadline" /\ tasks = 0
    /\ ~recording_complete

C15_SingleDelivery ==
    /\ \A a, b \in 1..Len(entregues) : a # b => entregues[a] # entregues[b]
    /\ \A a \in 1..Len(entregues), b \in 1..Len(fila) : entregues[a] # fila[b]
    /\ (consulta.feita /\ consulta.vazia) => consulta.ret = NoEvent
    /\ (consulta.feita /\ ~consulta.vazia)
        => (consulta.ret # NoEvent /\ consulta.ret = entregues[Len(entregues)])

\* an event was returned by one poll and a later poll returned None
C15_Witness ==
    /\ Len(entregues) = 1 /\ entregues[1].kind = "stop"
    /\ consulta.feita /\ consulta.vazia /\ consulta.ret = NoEvent

\* C16 (as claimed): at every moment at most one stop-word listener thread
\* is alive.
C16_ClaimOneListener ==
    Cardinality(Vivos) <= 1

C18_ClaimListenerStarted ==
    (caller = "run" /\ estado_atual = "GRAVANDO" /\ pc = "gravando_listen")
        => \E i \in Listeners : lst[i].pc # "unborn"

\* C19 (as claimed): the loop of run is left, other than by a keyboard
\* interrupt, only after running was set to False.
C19_ClaimStopsOnlyOnShutdown ==
    (caller = "run" /\ pc \in {"cleanup", "done"} /\ exitKind # "interrupt")
        => ~running

\* C20 (as claimed): whatever fails during estado_gravando, the call
\* returns the empty string.
C20_ClaimNeverRaises ==
    grav.falha # "none" => grav.ret = "empty"

\* C21 (as claimed): a run that ended on a shutdown request (the signal
\* handler or a keyboard interrupt) did not abandon a turn in Recording or
\* Dispatching: the state is not left at GRAVANDO or PROCESSANDO.
C21_ClaimTurnNotAborted ==
    (caller = "run" /\ pc \in {"cleanup", "done"}
        /\ exitKind \in {"shutdown", "interrupt"})
        => estado_atual \notin {"GRAVANDO", "PROCESSANDO"}

\* C22 (as claimed): run never returns without cleanup, and after cleanup
\* each HTTP client is closed unless its own close raised; in particular
\* the synthesis client is closed when closing the transcription client
\* failed.
C22_ClaimClientsClosed ==
    /\ (caller = "run" /\ pc = "done") => fecho.cleanup # "none"
    /\ fecho.cleanup \in {"ok", "stt_raised"} => fecho.tts = "none"
    /\ fecho.cleanup \in {"ok", "tts_raised"} => fecho.stt = "none"

\* C24 (as claimed): with a credential that is missing, empty or a
\* placeholder main returns 1 and the assistant was never started, and
\* main returns 0 only when run ended by a requested shutdown (the
\* shutdown flag, or the user's interrupt).
C24_ClaimExitCodes ==
    /\ (pc = "exited"
            /\ (ChaveInvalida(DeepgramKey) \/ ChaveInvalida(CartesiaKey)))
        => (exitCode = "1" /\ exitKind = "none" /\ fecho = NoFecho)
    /\ (pc = "exited" /\ exitCode = "0")
        => exitKind \in {"shutdown", "interrupt"}

\* C23: the capture device of the recording session is open only while
\* estado_gravando is inside its capture; once the capture has ended,
\* normally, by the no-speech timeout, by an exception or by an interrupt,
\* the device is released.
C23_DeviceReleased ==
    /\ grav.mic = "open" => pc = "gravando_listen"
    /\ grav.ret # "none" => grav.mic = "closed"

\* an exception ended the capture and the device is released
C23_Witness ==
    /\ grav.falha = "capture" /\ grav.ret = "empty" /\ grav.mic = "closed"
    /\ pc # "gravando_listen"

\* C25: transcrever_audio_file returns a string and never raises; with an
\* invalid credential it returns "" and sends no request; when the
\* request times out, raises, is answered with a non-200 status or with
\* no transcript, it returns "".
C25_TranscreverNeverRaises ==
    grav.transc # "none"
        => /\ grav.transc \in {"empty", "text"}
           /\ ChaveInvalida(DeepgramKey)
                => (grav.transc = "empty" /\ ~grav.sent /\ grav.stt = "none")
           /\ ~ChaveInvalida(DeepgramKey) => grav.sent
           /\ grav.stt \in {"timeout", "exception", "status_500",
                            "no_results", "ok_empty"}
                => grav.transc = "empty"

\* the request timed out and the call returned ""
C25_Witness ==
    /\ grav.sent /\ grav.stt = "timeout" /\ grav.transc = "empty"

\* C27: when r.listen returns audio, transcrever_audio_file is called; and
\* when estado_gravando handed run an empty transcript (no audio, or audio
\* with nothing transcribed) the turn is back in DESCANSO and
\* processar_prompt was not called.
C27_CaptureTimeout ==
    /\ grav.audio => grav.tentou
    /\ (caller = "run" /\ pc = "head" /\ turn.transcript = "empty")
        => /\ grav.ret = "empty"
           /\ estado_atual = "DESCANSO"
           /\ turn.agentCalls = 0
           /\ turn.outcome = "empty"

\* audio was captured and transcribed to nothing: the turn is over in
\* DESCANSO without a dispatch
C27_Witness ==
    /\ caller = "run" /\ pc = "head" /\ turn.transcript = "empty"
    /\ grav.audio /\ grav.tentou /\ grav.sent /\ grav.ret = "empty"
    /\ estado_atual = "DESCANSO" /\ turn.agentCalls = 0

\* C26: processar_prompt returns a result and never raises; a blank
\* transcription yields sucesso=False without a call of the reasoning
\* service, and a missing SDK or a failing query yields sucesso=False
\* with no tools and zero cost.
C26_ProcessarNeverRaises ==
    turn.res.feito
        => /\ ~turn.res.levantou
           /\ turn.sucesso \in {"True", "False"}
           /\ EmBranco(turn.prompt)
                => (~turn.res.sucesso /\ ~turn.res.chamou)
           /\ turn.srv \in {"import_error", "exception"}
                => (~turn.res.sucesso /\ turn.res.ferramentas = "vazia"
                      /\ turn.res.custo = "zero")
           /\ turn.srv = "import_error" => ~turn.res.chamou

\* the query raised and processar_prompt returned sucesso=False
C26_Witness ==
    /\ turn.srv = "exception" /\ turn.res.feito /\ turn.res.chamou
    /\ turn.sucesso = "False" /\ turn.outcome = "agent_failed"

\* C28 (as claimed): when processar_prompt succeeded and the Stop hook
\* found nothing to synthesize, estado_processando does not wait for the
\* completion signal and the turn does not end as a response timeout.
C28_ClaimEmptyResponseNoWait ==
    (turn.sucesso = "True" /\ turn.hook = "empty")
        => (~turn.waited /\ turn.fim # "deadline" /\ turn.outcome # "timeout")

\* C29 (as claimed): in run, the wait of a turn returns success only when
\* the synthesis task of that turn has set the completion signal.
C29_ClaimNoStaleSignal ==
    (caller = "run" /\ turn.fim = "signalled") => turn.propria = "done"

\* C30 (as claimed): an event returned by
\* verificar_palavra_parada_detectada was put by the listener that the
\* latest call of aguardar_palavra_parada started.
C30_ClaimNoStaleEvent ==
    (consulta.feita /\ ~consulta.vazia) => consulta.ret.src = consulta.atual

\* C33: in every reachable state the session state is one of the five
\* defined states, and an assistant on which nothing has been called yet
\* is in DESCANSO.
C33_StateIsDefined ==
    /\ estado_atual \in ESTADOS
    /\ (calls = 0 /\ pc \in {"main", "test"}) => estado_atual = "DESCANSO"

\* a name that is no state has been handed to transitar after the state
\* had left DESCANSO
C33_Witness ==
    /\ lastCall.op = "transitar" /\ lastCall.arg = "INVALID_STATE"
    /\ lastCall.pre = "PROCESSANDO" /\ calls = 2

\* the edges of the session state that run takes
ArestasDoRun == {<<"DESCANSO", "AGUARDANDO">>, <<"AGUARDANDO", "GRAVANDO">>,
                 <<"GRAVANDO", "DESCANSO">>, <<"GRAVANDO", "PROCESSANDO">>,
                 <<"PROCESSANDO", "DESCANSO">>,
                 <<"PROCESSANDO", "RESPONDENDO">>,
                 <<"RESPONDENDO", "DESCANSO">>}

\* the state each phase of a turn of run executes in
EstadoDaFase(p) ==
    CASE p \in {"head", "descanso_listen", "descanso_sleep"} -> "DESCANSO"
      [] p = "aguardando_sleep" -> "AGUARDANDO"
      [] p \in {"gravando_listen", "gravando_transcribe"} -> "GRAVANDO"
      [] p \in {"processando_call", "processando_wait"} -> "PROCESSANDO"
      [] p = "respondendo_sleep" -> "RESPONDENDO"
      [] OTHER -> "none"

\* C32: during run the session state changes only along the edges
\* DESCANSO-AGUARDANDO, AGUARDANDO-GRAVANDO, GRAVANDO-DESCANSO or
\* PROCESSANDO, PROCESSANDO-DESCANSO or RESPONDENDO, RESPONDENDO-DESCANSO;
\* the orchestrator is in one phase at a time, each phase runs in its own
\* state, and the next turn starts with the state back at DESCANSO.
C32_OnlyListedEdges ==
    [][caller = "run" =>
         /\ estado_atual' # estado_atual
               => <<estado_atual, estado_atual'>> \in ArestasDoRun
         /\ EstadoDaFase(pc') # "none" => estado_atual' = EstadoDaFase(pc')
      ]_vars

\* a turn of run went back to idle from PROCESSANDO and the next turn is
\* listening for the wake word
C32_Witness ==
    /\ caller = "run" /\ pc = "descanso_listen" /\ procRet = "False"
    /\ turn = TurnInit /\ estado_atual = "DESCANSO"

\* a step of a stop-word listener thread
PassoDeListener ==
    \E i \in Listeners :
        \/ ListenerStart(i) \/ ListenerFatal(i) \/ ListenerTimeout(i)
        \/ ListenerAbre(i)
        \/ \E motivo \in {"nada", "erro_servico"} : ListenerNaoReconhece(i, motivo)
        \/ \E cbLevanta \in BOOLEAN : ListenerDetecta(i, cbLevanta)

\* C34: the response callback _on_agent_response changes the completion
\* signal and nothing else of the orchestrator, the stop-word listener
\* thread changes the detection queue and its detection flag and nothing of
\* the orchestrator; both leave the session state and the shutdown flag as
\* they were.
C34_BackgroundWritesNoState ==
    [][/\ (\E da_vez \in BOOLEAN : TtsTaskConclui(da_vez))
            => UNCHANGED <<estado_atual, running, pc, hist, procRet, exitKind,
                           grav, fila, stop_word_detected, lst, micDono,
                           exitCode>>
       /\ PassoDeListener
            => UNCHANGED <<estado_atual, running, pc, hist, procRet, exitKind,
                           grav, recording_complete, tasks, turn, fecho,
                           exitCode>>
      ]_vars

\* a listener thread recognized the stop word while the session state was
\* GRAVANDO
C34_Witness ==
    /\ caller = "stt" /\ estado_atual = "GRAVANDO" /\ running
    /\ stop_word_detected
    /\ \E i \in Listeners : lst[i].puts = 1 /\ lst[i].pc = "dead"
    /\ fila # <<>> /\ fila[Len(fila)].kind = "stop"

\* C36: estado_descanso leaves the session state at DESCANSO; it returns
\* False exactly when the detector reported no detection and the shutdown
\* flag was set, True when a wake word was detected, and True when nothing
\* was detected and no shutdown had been requested.
C36_DescansoReturn ==
    /\ (caller = "run" /\ turn.descanso # "none") =>
          /\ (turn.descanso = "False")
                <=> (turn.wake = "not_detected" /\ ~turn.wakeRunning)
          /\ turn.wake = "detected" => turn.descanso = "True"
          /\ (turn.wake = "not_detected" /\ turn.wakeRunning)
                => turn.descanso = "True"
          /\ hist[1] = "DESCANSO"
          /\ turn.descanso = "False" => estado_atual = "DESCANSO"
    /\ (caller = "test" /\ lastCall.op = "descanso" /\ lastCall.ret # "none") =>
          /\ estado_atual = "DESCANSO"
          /\ (lastCall.ret = "False")
                <=> (lastCall.arg = "not_detected" /\ ~running)
          /\ lastCall.arg = "detected" => lastCall.ret = "True"

\* the detector came back without a detection after a shutdown signal
C36_Witness ==
    /\ caller = "run" /\ turn.wake = "not_detected" /\ ~turn.wakeRunning
    /\ turn.descanso = "False" /\ pc = "cleanup"

\* C35: within a turn the completion signal is set only after tts.falar
\* for that turn's response has returned: once run has cleared the signal
\* for the turn, the signal is set only if the synthesis task created in
\* this turn has finished.
C35_ClaimSetAfterOwnSynthesis ==
    (caller = "run" /\ turn.clears = 1 /\ recording_complete)
        => turn.propria = "done"

\* the orchestrator is inside a blocking device call: detectar_wake_word in
\* estado_descanso, r.listen in estado_gravando
BloqueadoNoDispositivo == pc \in {"descanso_listen", "gravando_listen"}

\* C31: wake-word detection and the capture run apart from the
\* orchestrator's event loop: while one of them is blocked on the device, a
\* pending synthesis callback task can finish and set the completion signal.
C31_ClaimLoopNotStalled ==
    (tasks > 0 /\ BloqueadoNoDispositivo)
        => ENABLED (\E da_vez \in BOOLEAN : TtsTaskConclui(da_vez))

\* C37: when offline recognition fails hard (recognize_sphinx raises
\* RequestError), the wake-word listener and the stop-word listener emit an
\* Error outcome and leave their listening loop: after such an attempt
\* detectar_wake_word has returned without a detection, and the stop-word
\* thread has ended.
C37_ClaimHardFailureExits ==
    /\ det.erroServico => (det.fase = "returned" /\ ~det.result.detected)
    /\ \A i \in Listeners : lst[i].ouviu = "erro_servico" => lst[i].pc = "dead"

\* two characters are the same letter, whatever their case
MesmaLetra(c, d) == c = d \/ {c, d} \in {{"a", "A"}, {"b", "B"}}

\* the text contains the phrase, compared case-insensitively
ContemSemCaixa(frase, texto) ==
    \E i \in 0..Len(texto) :
        /\ i + Len(frase) <= Len(texto)
        /\ \A k \in 1..Len(frase) : MesmaLetra(frase[k], texto[i + k])

Posto == fila'[Len(fila')]

\* C39: a stop-word listener started with a finite overall timeout, with
\* the microphone there, ends by putting one Timeout event once the
\* deadline has elapsed when no stop phrase was recognized: a step by which
\* a thread ends with its only put, other than a stop word, puts Timeout.
C39_ClaimEndsOnTimeout ==
    [][\A i \in Listeners :
          (temMicrofone /\ lst[i].pc # "dead" /\ lst'[i].pc = "dead"
              /\ lst'[i].puts = 1 /\ Posto.kind # "stop")
            => Posto.kind = "timeout"
      ]_vars

====
